---- MODULE Spec2Model ----
(***************************************************************************)
(* Model of the LoopBack connector for Google Cloud Datastore              *)
(* (src/src/datasource.ts): the key builder, the entity adapter, the       *)
(* filter compiler (buildQuery) and the five verbs create, all, count,     *)
(* update and destroyAll, run against a model of one Datastore kind.       *)
(*                                                                         *)
(* JavaScript values are tagged tuples:                                    *)
(*   <<"num", n>>      a number                                            *)
(*   <<"str", s>>      a string whose characters do not matter             *)
(*   <<"chars", cs>>   a string given character by character (ids)          *)
(*   <<"iso", t>>      the ISO-8601 text of instant t (Date.toJSON)         *)
(*   <<"words", ws>>   a string given by the pieces between its spaces      *)
(*   <<"bool", b>>     a boolean                                           *)
(*   <<"obj", o>>      an object (a where, a fields mapping)                *)
(*   <<"null">>        null                                                *)
(*   <<"undefined">>   undefined                                           *)
(*   <<"ops", kv>>     an operator object, kv its entries in key order      *)
(*   <<"arr", vs>>     an array                                             *)
(* An object (entity data, filter) is a function from property names to    *)
(* values; a where object is the sequence of its entries, in the order     *)
(* for..in visits them.                                                    *)
(***************************************************************************)
EXTENDS Integers, Sequences, FiniteSets, TLC

VARIABLES
  store,    \* the kind's entities: key id (a number) -> stored properties
  nextId,   \* the next identifier Datastore allocates for an incomplete key
  now,      \* the clock read by new Date()
  last,     \* the last verb invocation: its arguments, client calls, callback
  created,  \* history: the number of creates that succeeded
  deleted,  \* history: the number of records destroyAll removed
  stamps,   \* history: key id -> the createdAt create stamped on the record
  pending   \* the bulk update in flight between its query and its write

vars == <<store, nextId, now, last, created, deleted, stamps, pending>>

\* The number of identifiers Datastore allocates in one behaviour.
MaxId == 2

Ids == 1..MaxId

Null == <<"null">>
Undefined == <<"undefined">>
Num(n) == <<"num", n>>
Str(s) == <<"str", s>>
Chars(cs) == <<"chars", cs>>
Iso(t) == <<"iso", t>>

\* NaN, as Number.parseInt returns it; it is no key of the store.
NaN == 0 - 1

Digits == <<"0", "1", "2", "3", "4", "5", "6", "7", "8", "9">>

IsDigit(c) == \E d \in 1..10 : Digits[d] = c

DigitValue(c) == (CHOOSE d \in 1..10 : Digits[d] = c) - 1

\* The decimal text of a non-negative integer (Number.prototype.toString).
RECURSIVE NumberToString(_)
NumberToString(n) ==
  IF n < 10 THEN <<Digits[n + 1]>>
  ELSE NumberToString(n \div 10) \o <<Digits[(n % 10) + 1]>>

\* JavaScript truthiness of a value.
Truthy(v) ==
  CASE v[1] = "null" -> FALSE
    [] v[1] = "undefined" -> FALSE
    [] v[1] = "num" -> v[2] # 0
    [] v[1] = "chars" -> v[2] # <<>>
    [] v[1] = "str" -> v[2] # ""
    [] v[1] = "words" -> v[2] # <<"">>
    [] v[1] = "bool" -> v[2]
    [] OTHER -> TRUE

\* obj[name], undefined when the object has no such property.
Prop(obj, name) == IF name \in DOMAIN obj THEN obj[name] ELSE Undefined

\* Object.assign(target, source).
ObjectAssign(target, source) ==
  [k \in DOMAIN target \cup DOMAIN source |->
     IF k \in DOMAIN source THEN source[k] ELSE target[k]]

(***************************************************************************)
(* Key builder                                                             *)
(***************************************************************************)

\* Number.parseInt(id) of a string: the number its leading decimal digits
\* spell, NaN when it starts with no digit.
RECURSIVE DigitPrefixValue(_, _)
DigitPrefixValue(cs, acc) ==
  IF cs = <<>> \/ ~IsDigit(Head(cs)) THEN acc
  ELSE DigitPrefixValue(Tail(cs), acc * 10 + DigitValue(Head(cs)))

parseInt(id) ==
  IF id[1] = "num" THEN id[2]
  ELSE IF id[1] = "chars" /\ id[2] # <<>> /\ IsDigit(Head(id[2]))
       THEN DigitPrefixValue(id[2], 0)
       ELSE NaN

\* A key is <<"key">> (incomplete: Datastore assigns the identifier) or
\* <<"key", id>>. The kind is the one kind of the model.
createEntityKey == <<"key">>

createEntityKeyWithId(id) == <<"key", parseInt(id)>>

isKeyComplete(key) == Len(key) = 2

\* key.name: these keys carry a numeric id or none, never a name.
KeyName(key) == Undefined

(***************************************************************************)
(* Entity adapter                                                          *)
(***************************************************************************)

\* createEntity, had it keyed the entity by the id its data carries.
createEntityKeyedByData(entityProperties, key) ==
  [key |-> IF "id" \in DOMAIN entityProperties
           THEN createEntityKeyWithId(entityProperties["id"]) ELSE key,
   data |-> ObjectAssign(entityProperties,
              [createdAt |-> Iso(now), updatedAt |-> Null, id |-> KeyName(key)])]

\* createEntity, had it stamped updatedAt with the creation instant.
createEntityStampsUpdatedAt(entityProperties, key) ==
  [key |-> key,
   data |-> ObjectAssign(entityProperties,
              [createdAt |-> Iso(now), updatedAt |-> Iso(now), id |-> KeyName(key)])]

\* createEntity: the entity {key, data} with the reserved properties stamped.
createEntity(entityProperties, key) ==
  [key |-> key,
   data |-> ObjectAssign(entityProperties,
              [createdAt |-> Iso(now), updatedAt |-> Null, id |-> KeyName(key)])]

\* entity[datastore.KEY].id of an entity read from the kind: int64 ids come
\* back as decimal text.
KeyIdText(id) == Chars(NumberToString(id))

\* addIdentifier, had the id the record itself holds been kept.
addIdentifierKeepsOwn(id, properties) ==
  ObjectAssign([id |-> KeyIdText(id)], properties)

\* The entity stored under id, as the client returns it, its id merged in.
addIdentifier(id, properties) == ObjectAssign(properties, [id |-> KeyIdText(id)])

\* addIdentifierToEachEntity over the ids the client returned, in its order.
addIdentifierToEachEntity(st, ids) ==
  [k \in 1..Len(ids) |-> addIdentifier(ids[k], st[ids[k]])]

(***************************************************************************)
(* The Datastore client (the calls the connector makes)                    *)
(***************************************************************************)

\* The client copies entity data with extend(true, {}, obj), which skips
\* undefined properties.
PrepareData(data) ==
  [k \in {p \in DOMAIN data : data[p] # Undefined} |-> data[k]]

Put(st, id, properties) ==
  [i \in DOMAIN st \cup {id} |-> IF i = id THEN properties ELSE st[i]]

Remove(st, ids) == [i \in DOMAIN st \ ids |-> st[i]]

\* datastore.save(entity): an insert under a newly allocated id when the
\* key is incomplete, an upsert of the key's entity otherwise.
SaveKeyId(entity, next) ==
  IF isKeyComplete(entity.key) THEN entity.key[2] ELSE next

SaveStore(st, entity, next) ==
  Put(st, SaveKeyId(entity, next), PrepareData(entity.data))

\* The commit response: one mutation result per mutation; it carries the
\* key only when the commit allocated it.
SaveResponse(entity, next) ==
  [mutationResults |->
     << IF isKeyComplete(entity.key) THEN <<"nokey">> ELSE <<"key", next>> >>]

\* extractIdFromFirstCommitResponse
extractIdFromFirstCommitResponse(response) ==
  IF Len(response.mutationResults) = 0 \/ Len(response.mutationResults[1]) < 2
  THEN Undefined
  ELSE KeyIdText(response.mutationResults[1][2])

\* datastore.get(key): the entity under the key, or undefined. A NaN
\* identifier names no entity.
GetFound(st, key) == isKeyComplete(key) /\ key[2] \in DOMAIN st

\* A query, as the client's Query object holds it. limitVal and offsetVal
\* are -1 until limit() and offset() set them.
NoLimit == 0 - 1

createQuery ==
  [filters |-> <<>>, orders |-> <<>>, limitVal |-> NoLimit,
   offsetVal |-> NoLimit, selectVal |-> <<>>]

QueryFilter(query, name, op, val) ==
  [query EXCEPT !.filters = Append(@, <<name, op, val>>)]

\* Query.order(property, options): descending when options.descending.
QueryOrder(query, property, options) ==
  [query EXCEPT !.orders =
     Append(@, <<property, IF "descending" \in DOMAIN options THEN "-" ELSE "+">>)]

\* The comparison a predicate makes. Ordering comparisons are made on
\* numbers; a value of another type is in no ordering relation to one.
Compare(op, a, b) ==
  CASE op = "=" -> a = b
    [] op = "!=" -> a # b
    [] op = "in" -> b[1] = "arr" /\ \E k \in 1..Len(b[2]) : b[2][k] = a
    [] op \in {"<", "<=", ">", ">="} ->
         /\ a[1] = "num"
         /\ b[1] = "num"
         /\ CASE op = "<" -> a[2] < b[2]
              [] op = "<=" -> a[2] <= b[2]
              [] op = ">" -> a[2] > b[2]
              [] OTHER -> a[2] >= b[2]
    [] OTHER -> FALSE

\* An entity satisfies a predicate when it has the property and the
\* comparison holds of its value.
Satisfies(properties, pred) ==
  /\ pred[1] \in DOMAIN properties
  /\ Compare(pred[2], properties[pred[1]], pred[3])

Matches(properties, query) ==
  /\ \A k \in 1..Len(query.filters) : Satisfies(properties, query.filters[k])
  /\ \A k \in 1..Len(query.orders) : query.orders[k][1] \in DOMAIN properties

\* The position of a value in a sort order: numbers and instants by value.
SortRank(v) == IF v[1] \in {"num", "iso"} THEN v[2] ELSE 0

\* Entity i comes before entity j: by the ordering directives in turn, then
\* by key.
RECURSIVE Before(_, _, _, _)
Before(st, i, j, orders) ==
  IF orders = <<>> THEN i < j
  ELSE LET prop == Head(orders)[1]
           a == SortRank(st[i][prop])
           b == SortRank(st[j][prop])
       IN IF a = b THEN Before(st, i, j, Tail(orders))
          ELSE IF Head(orders)[2] = "-" THEN a > b ELSE a < b

RECURSIVE SortIds(_, _, _)
SortIds(st, S, orders) ==
  IF S = {} THEN <<>>
  ELSE LET m == CHOOSE i \in S : \A j \in S \ {i} : Before(st, i, j, orders)
       IN <<m>> \o SortIds(st, S \ {m}, orders)

Min(a, b) == IF a < b THEN a ELSE b

\* query.run() raises on a predicate whose operator is not one of the
\* client's.
RunRejects(query) ==
  \E k \in 1..Len(query.filters) : query.filters[k][2] = "undefined"

\* query.run(): the ids of the matching entities, ordered, after the
\* offset, up to the limit.
RunIds(st, query) ==
  LET sorted == SortIds(st, {i \in DOMAIN st : Matches(st[i], query)}, query.orders)
      from == IF query.offsetVal = NoLimit THEN 0 ELSE query.offsetVal
      upto == IF query.limitVal = NoLimit THEN Len(sorted)
              ELSE Min(Len(sorted), from + query.limitVal)
  IN SubSeq(sorted, from + 1, upto)

\* The properties the client returns for an entity under a query: all of
\* them when the select list is empty.
Project(properties, query) ==
  IF query.selectVal = <<>> THEN properties
  ELSE [k \in {p \in DOMAIN properties :
                 \E n \in 1..Len(query.selectVal) : query.selectVal[n] = Str(p)}
          |-> properties[k]]

(***************************************************************************)
(* Filter compiler                                                         *)
(***************************************************************************)

\* typeof value === 'object': objects, arrays and null.
IsObject(value) == value[1] \in {"ops", "obj", "arr", "null"}

\* The (key, value) pairs for..in visits on a value: an operator object's
\* entries, an array's indices, nothing on null.
RECURSIVE IndexEntries(_, _)
IndexEntries(vs, k) ==
  IF k > Len(vs) THEN <<>>
  ELSE << <<NumberToString(k - 1), vs[k]>> >> \o IndexEntries(vs, k + 1)

OwnEntries(value) ==
  CASE value[1] \in {"ops", "obj"} -> value[2]
    [] value[1] = "arr" -> IndexEntries(value[2], 1)
    [] OTHER -> <<>>

\* The switch of addComparisonFiltersToQuery: the native operator of an
\* operation key, undefined for any other key.
NativeOperator(operation) ==
  CASE operation = "lt" -> "<"
    [] operation = "lte" -> "<="
    [] operation = "gt" -> ">"
    [] operation = "gte" -> ">="
    [] operation = "ne" -> "!="
    [] operation = "in" -> "in"
    [] OTHER -> "undefined"

RECURSIVE ComparisonFilters(_, _, _)
ComparisonFilters(query, key, entries) ==
  IF entries = <<>> THEN query
  ELSE ComparisonFilters(
         QueryFilter(query, key, NativeOperator(Head(entries)[1]), Head(entries)[2]),
         key, Tail(entries))

addComparisonFiltersToQuery(query, key, value) ==
  ComparisonFilters(query, key, OwnEntries(value))

addWhereFilterToQuery(query, key, value) ==
  IF IsObject(value) THEN addComparisonFiltersToQuery(query, key, value)
  ELSE QueryFilter(query, key, "=", value)

\* The loop of buildQuery over the entries of where.
RECURSIVE WhereFilters(_, _)
WhereFilters(query, entries) ==
  IF entries = <<>> THEN query
  ELSE WhereFilters(
         addWhereFilterToQuery(query, Head(entries)[1], Head(entries)[2]),
         Tail(entries))

\* String.prototype.toUpperCase on the direction tokens of the model.
toUpperCase(s) ==
  CASE s \in {"desc", "Desc", "DESC"} -> "DESC"
    [] s \in {"asc", "ASC"} -> "ASC"
    [] OTHER -> s

\* generateOrderingObject, had it compared without toUpperCase.
generateOrderingObjectCaseSensitive(orderOption) ==
  IF orderOption = "DESC" THEN [descending |-> TRUE]
  ELSE [ascending |-> TRUE]

generateOrderingObject(orderOption) ==
  IF toUpperCase(orderOption) = "DESC" THEN [descending |-> TRUE]
  ELSE [ascending |-> TRUE]

notAnArray(valueToCheck) == valueToCheck[1] # "arr"

\* The loop over the order options, had an option with no direction been
\* ordered ascending.
RECURSIVE OrderDirectivesDefaultAscending(_, _)
OrderDirectivesDefaultAscending(query, options) ==
  IF options = <<>> THEN query
  ELSE LET pieces == Head(options)[2]
           property == pieces[1]
           hasOption == Len(pieces) >= 2 /\ pieces[2] # ""
       IN OrderDirectivesDefaultAscending(
            QueryOrder(query, property,
                       IF hasOption THEN generateOrderingObject(pieces[2])
                       ELSE [ascending |-> TRUE]),
            Tail(options))

\* The loop of buildQuery over the order options: option.split(' ') gives
\* the option's pieces; the second is the direction, undefined or empty
\* when the option has none.
RECURSIVE OrderDirectives(_, _)
OrderDirectives(query, options) ==
  IF options = <<>> THEN query
  ELSE LET pieces == Head(options)[2]
           property == pieces[1]
           hasOption == Len(pieces) >= 2 /\ pieces[2] # ""
       IN OrderDirectives(
            IF hasOption
            THEN QueryOrder(query, property, generateOrderingObject(pieces[2]))
            ELSE query,
            Tail(options))

\* fields.filter((field) => field === true): only an array has filter.
FieldsIsArray(fields) == fields[1] = "arr"

Selects(fields) == SelectSeq(fields[2], LAMBDA field : field = <<"bool", TRUE>>)

\* buildQuery: kind is "query" when it returns the query, "undefined" when
\* it returns none (the empty order array), "throws" when fields.filter is
\* not a function.
buildQuery(filters) ==
  LET where == Prop(filters, "where")
      order == Prop(filters, "order")
      limit == Prop(filters, "limit")
      skip == Prop(filters, "skip")
      fields == Prop(filters, "fields")
      q1 == IF Truthy(where) THEN WhereFilters(createQuery, OwnEntries(where))
            ELSE createQuery
      options == IF ~Truthy(order) THEN <<>>
                 ELSE IF notAnArray(order) THEN <<order>> ELSE order[2]
      q2 == OrderDirectives(q1, options)
      q3 == IF Truthy(limit) THEN [q2 EXCEPT !.limitVal = limit[2]] ELSE q2
      q4 == IF Truthy(skip) THEN [q3 EXCEPT !.offsetVal = skip[2]] ELSE q3
  IN IF Truthy(order) /\ Len(options) < 1
     THEN [kind |-> "undefined", query |-> createQuery]
     ELSE IF Truthy(fields) /\ ~FieldsIsArray(fields)
     THEN [kind |-> "throws", query |-> q4]
     ELSE IF Truthy(fields)
     THEN [kind |-> "query", query |-> [q4 EXCEPT !.selectVal = Selects(fields)]]
     ELSE [kind |-> "query", query |-> q4]

\* hasFilter, had it left skip out.
hasFilterWithoutSkip(filter) ==
  \/ Truthy(Prop(filter, "where"))
  \/ Truthy(Prop(filter, "limit"))
  \/ Truthy(Prop(filter, "fields"))
  \/ Truthy(Prop(filter, "order"))

hasFilter(filter) ==
  \/ Truthy(Prop(filter, "where"))
  \/ Truthy(Prop(filter, "limit"))
  \/ Truthy(Prop(filter, "fields"))
  \/ Truthy(Prop(filter, "order"))
  \/ Truthy(Prop(filter, "skip"))

(***************************************************************************)
(* CRUD orchestrator                                                       *)
(*                                                                         *)
(* A helper's or a verb's outcome is the value it yields, or               *)
(* <<"throw", kind>> when an exception leaves it: kind "client" for an     *)
(* exception a Datastore call raised, "TypeError" for one the connector's  *)
(* own code raised. raises says which client call of the invocation        *)
(* raises: 0 none, 1 the first, 2 the second.                              *)
(***************************************************************************)

Throw(kind) == <<"throw", kind>>

IsThrow(v) == v[1] = "throw"

List(entities) == <<"list", entities>>

CountResult(n) == <<"count", n>>

\* obj.name of an object given by its entries; undefined when absent.
EntryValue(obj, name) ==
  IF obj[1] # "obj" \/ ~\E k \in 1..Len(obj[2]) : obj[2][k][1] = name
  THEN Undefined
  ELSE obj[2][CHOOSE k \in 1..Len(obj[2]) : obj[2][k][1] = name][2]

\* where && where.id
WhereId(where) == IF Truthy(where) THEN EntryValue(where, "id") ELSE Undefined

\* The commit response of update and delete: one mutation result per
\* mutation sent.
MutationResults(keys) == [k \in 1..Len(keys) |-> <<"nokey">>]

Range(seq) == {seq[k] : k \in 1..Len(seq)}

\* ---- create

\* The entity create saves.
createSaved(data) == createEntity(data, createEntityKey)

\* create: the id the callback gets, or the exception its catch logs.
createOutcome(data, raises) ==
  IF raises = 1 THEN Throw("client")
  ELSE extractIdFromFirstCommitResponse(SaveResponse(createSaved(data), nextId))

createStore(data, raises) ==
  IF raises = 1 THEN store ELSE SaveStore(store, createSaved(data), nextId)

\* ---- read helpers

\* findById, had it no catch of its own.
findByIdRethrows(id, raises) ==
  LET key == createEntityKeyWithId(id)
  IN IF raises = 1 THEN Throw("client")
     ELSE IF GetFound(store, key)
          THEN List(addIdentifierToEachEntity(store, <<key[2]>>))
          ELSE List(<<>>)

\* findById: its catch logs what datastore.get raised and the method
\* resolves with undefined.
findById(id, raises) ==
  LET key == createEntityKeyWithId(id)
  IN IF raises = 1 THEN Undefined
     ELSE IF GetFound(store, key)
          THEN List(addIdentifierToEachEntity(store, <<key[2]>>))
          ELSE List(<<>>)

\* getAllEntity: likewise undefined when query.run raised.
getAllEntity(raises) ==
  IF raises = 1 THEN Undefined
  ELSE List(addIdentifierToEachEntity(store, RunIds(store, createQuery)))

\* The entities a query's run yields, identifiers added.
QueryEntities(query) ==
  LET ids == RunIds(store, query)
  IN [k \in 1..Len(ids) |-> addIdentifier(ids[k], Project(store[ids[k]], query))]

\* getResultsWithQuery has no catch: buildQuery throwing, run on no query,
\* and run raising all leave it.
getResultsWithQuery(filter, raises) ==
  LET compiled == buildQuery(filter)
  IN IF compiled.kind # "query" THEN Throw("TypeError")
     ELSE IF raises = 1 \/ RunRejects(compiled.query) THEN Throw("client")
     ELSE List(QueryEntities(compiled.query))

\* ---- all

allRoute(filter) ==
  IF Truthy(WhereId(Prop(filter, "where"))) THEN "findById"
  ELSE IF hasFilter(filter) THEN "query"
  ELSE "getAll"

allOutcome(filter, raises) ==
  CASE allRoute(filter) = "findById" ->
         findById(WhereId(Prop(filter, "where")), raises)
    [] allRoute(filter) = "query" -> getResultsWithQuery(filter, raises)
    [] OTHER -> getAllEntity(raises)

allCalls(filter) ==
  CASE allRoute(filter) = "findById" -> <<"get">>
    [] allRoute(filter) = "query" ->
         IF buildQuery(filter).kind = "query" THEN <<"run">> ELSE <<>>
    [] OTHER -> <<"run">>

\* ---- count

countRoute(where) == IF Truthy(WhereId(where)) THEN "get" ELSE "getAll"

\* count, had it not filtered the absent entity out of what get returned.
countOutcomeUnfiltered(where, raises) ==
  LET result == getAllEntity(raises)
  IN IF countRoute(where) = "get"
     THEN IF raises = 1 THEN Throw("client") ELSE Num(1)
     ELSE IF result = Undefined THEN Throw("TypeError")
          ELSE Num(Len(result[2]))

\* count, had its unfiltered path counted the records matching where.
countOutcomeMatching(where, raises) ==
  LET key == createEntityKeyWithId(WhereId(where))
      result == getAllEntity(raises)
      query == IF Truthy(where) THEN WhereFilters(createQuery, OwnEntries(where))
               ELSE createQuery
  IN IF countRoute(where) = "get"
     THEN IF raises = 1 THEN Throw("client")
          ELSE Num(IF GetFound(store, key) THEN 1 ELSE 0)
     ELSE IF result = Undefined THEN Throw("TypeError")
          ELSE Num(Len(RunIds(store, query)))

countOutcome(where, raises) ==
  LET key == createEntityKeyWithId(WhereId(where))
      result == getAllEntity(raises)
  IN IF countRoute(where) = "get"
     THEN IF raises = 1 THEN Throw("client")
          ELSE Num(IF GetFound(store, key) THEN 1 ELSE 0)
     ELSE \* result.length of undefined
          IF result = Undefined THEN Throw("TypeError")
          ELSE Num(Len(result[2]))

countCalls(where) == IF countRoute(where) = "get" THEN <<"get">> ELSE <<"run">>

\* ---- update

\* datastore.update: the commit fails unless every key names an existing
\* entity.
UpdateRejects(st, ids) == \E k \in 1..Len(ids) : ids[k] \notin DOMAIN st

\* The store after datastore.update wrote datas[k] under ids[k], in turn.
RECURSIVE UpdateStore(_, _, _)
UpdateStore(st, ids, datas) ==
  IF ids = <<>> THEN st
  ELSE UpdateStore(Put(st, Head(ids), PrepareData(Head(datas))), Tail(ids), Tail(datas))

\* The id update targets: filter.id, else where.id.
updateId(filter) ==
  IF Truthy(Prop(filter, "id")) THEN Prop(filter, "id")
  ELSE WhereId(Prop(filter, "where"))

updateRoute(filter) == IF Truthy(updateId(filter)) THEN "updateEntity" ELSE "query"

\* updateEntity(model, id, data)
updateEntity(id, data, raises) ==
  LET key == createEntityKeyWithId(id)
  IN IF raises = 1 \/ UpdateRejects(store, <<key[2]>>) THEN Throw("client")
     ELSE CountResult(Len(MutationResults(<<key[2]>>)))

\* newEntities, had the bulk path sent data alone for each entity.
newEntitiesDataOnly(entities, data) ==
  [k \in 1..Len(entities) |-> data]

\* The entities the bulk path sends to datastore.update.
newEntities(entities, data) ==
  [k \in 1..Len(entities) |-> ObjectAssign(entities[k], data)]

updateOutcome(filter, data, raises) ==
  LET entities == getResultsWithQuery(filter, raises)
      ids == RunIds(store, buildQuery(filter).query)
  IN IF updateRoute(filter) = "updateEntity"
     THEN updateEntity(updateId(filter), data, raises)
     ELSE IF IsThrow(entities) THEN entities
     ELSE IF raises = 2 \/ UpdateRejects(store, ids) THEN Throw("client")
     ELSE CountResult(Len(MutationResults(ids)))

\* updateStore, had the single-key path merged data into the stored record.
updateStoreMerges(filter, data, raises) ==
  LET ids == RunIds(store, buildQuery(filter).query)
      entities == QueryEntities(buildQuery(filter).query)
      id == createEntityKeyWithId(updateId(filter))[2]
  IN IF IsThrow(updateOutcome(filter, data, raises)) THEN store
     ELSE IF updateRoute(filter) = "updateEntity"
     THEN UpdateStore(store, <<id>>, <<ObjectAssign(store[id], data)>>)
     ELSE UpdateStore(store, ids, newEntities(entities, data))

updateStore(filter, data, raises) ==
  LET ids == RunIds(store, buildQuery(filter).query)
      entities == QueryEntities(buildQuery(filter).query)
  IN IF IsThrow(updateOutcome(filter, data, raises)) THEN store
     ELSE IF updateRoute(filter) = "updateEntity"
     THEN UpdateStore(store, <<createEntityKeyWithId(updateId(filter))[2]>>, <<data>>)
     ELSE UpdateStore(store, ids, newEntities(entities, data))

updateCalls(filter) ==
  IF updateRoute(filter) = "updateEntity" THEN <<"update">>
  ELSE IF buildQuery(filter).kind # "query" THEN <<>>
  ELSE IF RunRejects(buildQuery(filter).query) THEN <<"run">>
  ELSE <<"run", "update">>

\* ---- destroyAll

destroyAllRoute(where) == IF Truthy(WhereId(where)) THEN "delete" ELSE "getAll"

\* The keys the bulk path builds from the fetched entities' id properties.
RECURSIVE EntityKeyIds(_)
EntityKeyIds(entities) ==
  IF entities = <<>> THEN <<>>
  ELSE <<createEntityKeyWithId(Head(entities)["id"])[2]>> \o EntityKeyIds(Tail(entities))

\* destroyAllKeys, had the bulk path fetched only the records matching
\* where.
destroyAllKeysMatching(where) ==
  IF destroyAllRoute(where) = "delete"
  THEN <<createEntityKeyWithId(WhereId(where))[2]>>
  ELSE RunIds(store, IF Truthy(where)
                     THEN WhereFilters(createQuery, OwnEntries(where))
                     ELSE createQuery)

\* The key ids destroyAll deletes when no call raises.
destroyAllKeys(where) ==
  IF destroyAllRoute(where) = "delete"
  THEN <<createEntityKeyWithId(WhereId(where))[2]>>
  ELSE EntityKeyIds(getAllEntity(0)[2])

destroyAllOutcome(where, raises) ==
  IF destroyAllRoute(where) = "delete"
  THEN IF raises = 1 THEN Throw("client")
       ELSE CountResult(Len(MutationResults(destroyAllKeys(where))))
  ELSE \* result.map of undefined
       IF getAllEntity(raises) = Undefined THEN Throw("TypeError")
       ELSE IF raises = 2 THEN Throw("client")
       ELSE CountResult(Len(MutationResults(destroyAllKeys(where))))

destroyAllStore(where, raises) ==
  IF IsThrow(destroyAllOutcome(where, raises)) THEN store
  ELSE Remove(store, Range(destroyAllKeys(where)))

destroyAllCalls(where) ==
  IF destroyAllRoute(where) = "delete" THEN <<"delete">> ELSE <<"run", "delete">>

\* ---- the record of one verb invocation

NoCompile == [kind |-> "none", query |-> createQuery]

\* calls: the client calls made, the raising one last. raised: a client
\* call raised. caught: what the verb's catch block caught, "none" when it
\* caught nothing. The callback was called cbCount times, with (cbErr,
\* cbResult): every call the verbs make passes null for the error.
Invocation(verb, filter, data, route, compiled, planned, raises, outcome) ==
  [verb |-> verb, filter |-> filter, data |-> data, pre |-> store,
   route |-> route, compiled |-> compiled,
   calls |-> IF raises = 0 THEN planned ELSE SubSeq(planned, 1, raises),
   raised |-> raises # 0 \/ (IsThrow(outcome) /\ outcome[2] = "client"),
   caught |-> IF IsThrow(outcome) THEN outcome[2] ELSE "none",
   cbCount |-> IF IsThrow(outcome) THEN 0 ELSE 1,
   cbErr |-> Null,
   cbResult |-> IF IsThrow(outcome) THEN Undefined ELSE outcome]

NoInvocation ==
  [verb |-> "none", filter |-> Undefined, data |-> <<>>, pre |-> <<>>,
   route |-> "none", compiled |-> NoCompile, calls |-> <<>>, raised |-> FALSE,
   caught |-> "none", cbCount |-> 0, cbErr |-> Null, cbResult |-> Undefined]

\* ---- the bulk update in flight

\* update's bulk path awaits twice: getResultsWithQuery, then
\* datastore.update. Between the two the invocation holds the entities it
\* read; pre is the store it read them from, ids their key ids.
NoPending ==
  [phase |-> "none", filter |-> <<>>, data |-> <<>>, pre |-> <<>>,
   ids |-> <<>>, entities |-> <<>>, failed |-> FALSE]

\* pendingEntities, had the write step read the records again.
pendingEntitiesFresh(p) ==
  newEntities([k \in 1..Len(p.ids) |->
                 IF p.ids[k] \in DOMAIN store
                 THEN addIdentifier(p.ids[k], store[p.ids[k]])
                 ELSE p.entities[k]],
              p.data)

\* The entities the pending update sends to datastore.update.
pendingEntities(p) == newEntities(p.entities, p.data)

\* The ids and entities of the pending update whose keys name a record.
ExistingIds(p) == SelectSeq(p.ids, LAMBDA i : i \in DOMAIN store)

ExistingEntities(p) ==
  LET ks == SelectSeq([k \in 1..Len(p.ids) |-> k],
                      LAMBDA k : p.ids[k] \in DOMAIN store)
  IN [n \in 1..Len(ks) |-> pendingEntities(p)[ks[n]]]

\* The first half of the bulk path: through await getResultsWithQuery.
\* An exception there ends the verb in its catch.
updateRead(filter, data, raises) ==
  LET entities == getResultsWithQuery(filter, raises)
      compiled == buildQuery(filter)
  IN /\ updateRoute(filter) = "query"
     /\ raises <= Len(allCalls(filter))
     /\ raises <= 1
     /\ IF IsThrow(entities)
        THEN /\ pending' = NoPending
             /\ last' = Invocation("update", filter, data, "query", compiled,
                                   allCalls(filter), raises, entities)
        ELSE /\ pending' = [phase |-> "read", filter |-> filter, data |-> data,
                            pre |-> store, ids |-> RunIds(store, compiled.query),
                            entities |-> entities[2], failed |-> FALSE]
             /\ UNCHANGED last
     /\ UNCHANGED <<store, nextId, now, created, deleted, stamps>>

\* The second half: datastore.update(newEntities) and the callback. The
\* commit is not transactional: when a key names no record any more the
\* call raises, and the other mutations were applied or were not.
updateWrite(raises, applied) ==
  LET ids == pending.ids
      rejects == UpdateRejects(store, ids)
      outcome == IF raises = 1 \/ rejects THEN Throw("client")
                 ELSE CountResult(Len(MutationResults(ids)))
  IN /\ pending.phase = "read"
     /\ raises <= 1
     /\ applied => (raises = 0 /\ rejects)
     /\ store' = IF raises = 1 THEN store
                 ELSE IF rejects
                 THEN IF applied
                      THEN UpdateStore(store, ExistingIds(pending),
                                       ExistingEntities(pending))
                      ELSE store
                 ELSE UpdateStore(store, ids, pendingEntities(pending))
     /\ last' = Invocation("update", pending.filter, pending.data, "query",
                           buildQuery(pending.filter), <<"run", "update">>,
                           IF raises = 1 THEN 2 ELSE 0, outcome)
     /\ pending' = [pending EXCEPT !.phase = "written", !.failed = raises = 1]
     /\ UNCHANGED <<nextId, now, created, deleted, stamps>>

\* ---- the verbs as steps

create(data, raises) ==
  /\ nextId <= MaxId
  /\ raises <= 1
  /\ store' = createStore(data, raises)
  /\ nextId' = IF raises = 1 THEN nextId ELSE nextId + 1
  /\ now' = IF raises = 1 THEN now ELSE now + 1
  /\ created' = IF raises = 1 THEN created ELSE created + 1
  /\ stamps' = IF raises = 1 THEN stamps
               ELSE Put(stamps, SaveKeyId(createSaved(data), nextId),
                        createSaved(data).data["createdAt"])
  /\ UNCHANGED <<deleted, pending>>
  /\ last' = Invocation("create", Undefined, data, "save", NoCompile, <<"save">>,
                        raises, createOutcome(data, raises))

all(filter, raises) ==
  /\ raises <= Len(allCalls(filter))
  /\ UNCHANGED <<store, nextId, now, created, deleted, stamps, pending>>
  /\ last' = Invocation("all", filter, <<>>, allRoute(filter),
                        IF allRoute(filter) = "query" THEN buildQuery(filter)
                        ELSE NoCompile,
                        allCalls(filter), raises, allOutcome(filter, raises))

count(where, raises) ==
  /\ raises <= 1
  /\ UNCHANGED <<store, nextId, now, created, deleted, stamps, pending>>
  /\ last' = Invocation("count", where, <<>>, countRoute(where), NoCompile,
                        countCalls(where), raises, countOutcome(where, raises))

update(filter, data, raises) ==
  /\ raises <= Len(updateCalls(filter))
  /\ store' = updateStore(filter, data, raises)
  /\ UNCHANGED <<nextId, now, created, deleted, stamps, pending>>
  /\ last' = Invocation("update", filter, data, updateRoute(filter),
                        IF updateRoute(filter) = "query" THEN buildQuery(filter)
                        ELSE NoCompile,
                        updateCalls(filter), raises,
                        updateOutcome(filter, data, raises))

destroyAll(where, raises) ==
  /\ raises <= Len(destroyAllCalls(where))
  /\ store' = destroyAllStore(where, raises)
  /\ deleted' = deleted + Cardinality(DOMAIN store \ DOMAIN destroyAllStore(where, raises))
  /\ UNCHANGED <<nextId, now, created, stamps, pending>>
  /\ last' = Invocation("destroyAll", where, <<>>, destroyAllRoute(where),
                        NoCompile, destroyAllCalls(where), raises,
                        destroyAllOutcome(where, raises))

(***************************************************************************)
(* Inputs                                                                  *)
(***************************************************************************)

Obj(entries) == <<"obj", entries>>
Ops(entries) == <<"ops", entries>>
Arr(vs) == <<"arr", vs>>
Words(ws) == <<"words", ws>>
Bool(b) == <<"bool", b>>

\* The property maps create is given; one carries an id of its own, the
\* text of an identifier Datastore allocates.
CreateData ==
  { [age |-> Num(2), type |-> Str("Animal")],
    [age |-> Num(27), type |-> Str("Animal")],
    [age |-> Num(27), id |-> Chars(<<"1">>)] }

\* The property maps update is given; one carries an id of its own.
UpdateData ==
  { [type |-> Str("Plant")],
    [age |-> Num(2), id |-> Chars(<<"2">>)] }

\* The id texts a caller passes: the decimal text of every identifier, a
\* text with a digit prefix and a text with none.
IdTexts ==
  {NumberToString(i) : i \in Ids} \cup {<<"1", "a">>, <<"a">>}

IdWheres == {Obj(<< <<"id", Chars(t)>> >>) : t \in IdTexts}

\* The where objects without an id.
PlainWheres ==
  { Obj(<<>>),
    Obj(<< <<"age", Num(2)>> >>),
    Obj(<< <<"type", Str("Animal")>> >>),
    Obj(<< <<"type", Null>> >>),
    Obj(<< <<"type", Str("Animal")>>, <<"age", Ops(<< <<"lt", Num(27)>> >>)>> >>),
    Obj(<< <<"age", Ops(<< <<"gt", Num(2)>>, <<"lte", Num(27)>> >>)>> >>),
    Obj(<< <<"age", Ops(<< <<"gte", Num(27)>> >>)>> >>),
    Obj(<< <<"age", Ops(<< <<"ne", Num(2)>> >>)>> >>),
    Obj(<< <<"age", Ops(<< <<"in", Arr(<<Num(2)>>)>> >>)>> >>),
    Obj(<< <<"age", Ops(<< <<"eq", Num(2)>> >>)>> >>) }

\* The where argument of count and destroyAll.
Wheres == {Null} \cup IdWheres \cup PlainWheres

WhereParts ==
  {<<>>} \cup {[where |-> w] : w \in IdWheres \cup PlainWheres}
    \cup {[where |-> Obj(<< <<"id", Chars(<<"1">>)>>, <<"age", Num(27)>> >>)]}

\* The order, limit, skip and fields a filter carries beside its where.
OrderParts ==
  { <<>>,
    [order |-> Words(<<"age", "DESC">>)],
    [order |-> Words(<<"age", "desc">>)],
    [order |-> Words(<<"age", "ASC">>)],
    [order |-> Words(<<"age", "up">>)],
    [order |-> Words(<<"age">>)],
    [order |-> Arr(<<>>)],
    [order |-> Arr(<<Words(<<"type">>), Words(<<"age", "Desc">>)>>)] }

PageParts ==
  { <<>>,
    [limit |-> Num(0)],
    [limit |-> Num(1)],
    [skip |-> Num(0)],
    [skip |-> Num(1)],
    [limit |-> Num(1), skip |-> Num(1)],
    [fields |-> Obj(<< <<"type", Bool(TRUE)>> >>)],
    [fields |-> Obj(<< <<"age", Bool(FALSE)>> >>)],
    [fields |-> Arr(<<Str("type")>>)] }

\* The filter argument of all: a where with an order, a where with paging
\* or fields, and an order with paging or fields.
Filters ==
  {ObjectAssign(w, o) : w \in WhereParts, o \in OrderParts}
    \cup {ObjectAssign(w, p) : w \in WhereParts, p \in PageParts}
    \cup {ObjectAssign(o, p) : o \in OrderParts, p \in PageParts}

\* The filter argument of update: with an id of its own, or as all's.
UpdateFilters ==
  {[id |-> Chars(t)] : t \in IdTexts}
    \cup {ObjectAssign(w, p) :
            w \in WhereParts,
            p \in {<<>>, [order |-> Words(<<"age", "DESC">>), limit |-> Num(1)],
                   [order |-> Arr(<<>>)],
                   [fields |-> Obj(<< <<"type", Bool(TRUE)>> >>)]}}

(***************************************************************************)
(* The state machine                                                       *)
(***************************************************************************)

Init ==
  /\ store = <<>>
  /\ nextId = 1
  /\ now = 1
  /\ last = NoInvocation
  /\ created = 0
  /\ deleted = 0
  /\ stamps = <<>>
  /\ pending = NoPending

\* One verb runs at a time: the caller invokes the next once the record of
\* the last invocation is taken (Settle).
Idle == last.verb = "none"

Create ==
  /\ Idle
  /\ \E data \in CreateData, raises \in 0..2 : create(data, raises)

All ==
  /\ Idle
  /\ \E filter \in Filters, raises \in 0..2 : all(filter, raises)

Count ==
  /\ Idle
  /\ \E where \in Wheres, raises \in 0..2 : count(where, raises)

Update ==
  /\ Idle
  /\ \E filter \in UpdateFilters, data \in UpdateData, raises \in 0..2 :
       update(filter, data, raises)

DestroyAll ==
  /\ Idle
  /\ \E where \in Wheres, raises \in 0..2 : destroyAll(where, raises)

Settle ==
  /\ ~Idle
  /\ last' = NoInvocation
  /\ UNCHANGED <<store, nextId, now, created, deleted, stamps, pending>>

Next == Create \/ All \/ Count \/ Update \/ DestroyAll \/ Settle

Spec == Init /\ [][Next]_vars

\* Verb invocations overlapping a bulk update: before one bulk update's
\* query, between its query and its write, and after its write, other
\* invocations create, update by id and delete by id.
RaceFilters ==
  { [where |-> Obj(<< <<"type", Str("Animal")>> >>)],
    [where |-> Obj(<< <<"age", Ops(<< <<"gte", Num(27)>> >>)>> >>)],
    [where |-> Obj(<< <<"age", Ops(<< <<"eq", Num(2)>> >>)>> >>)] }

UpdateRead ==
  /\ Idle
  /\ pending.phase = "none"
  /\ \E filter \in RaceFilters, data \in UpdateData, raises \in 0..1 :
       updateRead(filter, data, raises)

UpdateWrite ==
  /\ Idle
  /\ \E raises \in 0..1, applied \in BOOLEAN : updateWrite(raises, applied)

CreateOne ==
  /\ Idle
  /\ \E data \in CreateData : create(data, 0)

UpdateById ==
  /\ Idle
  /\ \E i \in Ids, data \in UpdateData :
       update([id |-> Chars(NumberToString(i))], data, 0)

DestroyById ==
  /\ Idle
  /\ \E i \in Ids : destroyAll(Obj(<< <<"id", Chars(NumberToString(i))>> >>), 0)

NextRace ==
  UpdateRead \/ UpdateWrite \/ CreateOne \/ UpdateById \/ DestroyById \/ Settle

SpecRace == Init /\ [][NextRace]_vars

(***************************************************************************)
(* Properties                                                              *)
(***************************************************************************)

Invoked(verb) == last.verb = verb

Succeeded(verb) == last.verb = verb /\ last.cbCount = 1

\* C1: every verb invocation calls its callback exactly once: with an
\* error and no result when a client call raised, with no error and a
\* result when none did.
C1_CallbackExactlyOnce ==
  ~Idle =>
    /\ last.cbCount = 1
    /\ IF last.raised
       THEN last.cbErr # Null /\ last.cbResult = Undefined
       ELSE last.cbErr = Null /\ last.cbResult # Undefined

\* C2 as stated: in every verb, on every branch, a raising client call
\* leaves the callback uncalled.
C2_RaiseLeavesCallbackUncalled == last.raised => last.cbCount = 0

\* C2 as amended: a raising client call is never reported as an error; the
\* callback stays uncalled except in all() on its single-key and unfiltered
\* branches, whose helpers swallow the exception, so that all() calls back
\* once with (null, undefined).
C2_RaiseNeverReported ==
  last.raised =>
    IF Invoked("all") /\ last.route \in {"findById", "getAll"}
    THEN last.cbCount = 1 /\ last.cbErr = Null /\ last.cbResult = Undefined
    ELSE last.cbCount = 0

C2_Witness ==
  /\ Invoked("all")
  /\ last.route = "findById"
  /\ last.raised
  /\ last.cbCount = 1

\* C3: a successful create is exactly one insert: one new entity, every
\* entity stored before unchanged, and the id called back is the text of
\* the new entity's key id.
C3_CreateInsertsOne ==
  Succeeded("create") =>
    /\ last.calls = <<"save">>
    /\ \E i \in Ids \ DOMAIN last.pre :
         /\ DOMAIN store = DOMAIN last.pre \cup {i}
         /\ last.cbResult = Chars(NumberToString(i))
    /\ \A j \in DOMAIN last.pre : store[j] = last.pre[j]

\* create succeeded with data carrying the id of an entity stored before.
C3_Witness ==
  /\ Succeeded("create")
  /\ "id" \in DOMAIN last.data
  /\ \E j \in DOMAIN last.pre : last.data["id"] = Chars(NumberToString(j))

\* C4: right after create(P) called back id i, all({where: {id: i}}) yields
\* one record: P with id = i, createdAt an instant's text and updatedAt
\* null written over it.
C4_RoundTrip ==
  Succeeded("create") =>
    \E t \in 1..MaxId :
      allOutcome([where |-> <<"obj", << <<"id", last.cbResult>> >> >>], 0)
        = List(<< ObjectAssign(last.data, [id |-> last.cbResult,
                                            createdAt |-> Iso(t),
                                            updatedAt |-> Null]) >>)

\* The second create succeeded, with data carrying an id of its own.
C4_Witness ==
  /\ Succeeded("create")
  /\ "id" \in DOMAIN last.data
  /\ last.cbResult = Chars(<<"2">>)

IsDecimalText(cs) == cs # <<>> /\ \A k \in 1..Len(cs) : IsDigit(cs[k])

\* C5: count by where.id, the decimal text of an identifier, reports 1 if
\* an entity with that identifier is stored and 0 otherwise.
C5_CountById ==
  /\ Succeeded("count")
  /\ WhereId(last.filter)[1] = "chars"
  /\ IsDecimalText(WhereId(last.filter)[2])
  => last.cbResult =
       Num(IF \E i \in DOMAIN store : Chars(NumberToString(i)) = WhereId(last.filter)
           THEN 1 ELSE 0)

\* count reported 0 for the id of an entity that was created and deleted.
C5_Witness ==
  /\ Succeeded("count")
  /\ last.cbResult = Num(0)
  /\ \E i \in 1..(nextId - 1) :
       /\ i \notin DOMAIN store
       /\ WhereId(last.filter) = Chars(NumberToString(i))

FilterFields == {"where", "order", "limit", "fields", "skip"}

HasEntry(obj, name) ==
  obj[1] = "obj" /\ \E k \in 1..Len(obj[2]) : obj[2][k][1] = name

\* The key ids of the records of a result list, in its order.
ResultIds(result) == [k \in 1..Len(result[2]) |-> parseInt(result[2][k]["id"])]

RECURSIVE C7_PredicateCount(_)
C7_PredicateCount(entries) ==
  IF entries = <<>> THEN 0
  ELSE (IF Head(entries)[2][1] = "ops" THEN Len(Head(entries)[2][2]) ELSE 1)
         + C7_PredicateCount(Tail(entries))

C7_Native(operation) ==
  CASE operation = "lt" -> "<"
    [] operation = "lte" -> "<="
    [] operation = "gt" -> ">"
    [] operation = "gte" -> ">="
    [] operation = "ne" -> "!="
    [] OTHER -> "in"

\* An entity satisfies every entry of a where.
C7_Holds(properties, entries) ==
  \A k \in 1..Len(entries) :
    LET field == entries[k][1]
        value == entries[k][2]
    IN /\ field \in DOMAIN properties
       /\ IF value[1] = "ops"
          THEN \A n \in 1..Len(value[2]) :
                 Compare(C7_Native(value[2][n][1]), properties[field], value[2][n][2])
          ELSE properties[field] = value

\* C7: a where compiles to one predicate per literal entry and one per
\* operator key, and the query path of all() yields exactly the stored
\* entities that satisfy every entry.
C7_WherePredicates ==
  /\ Invoked("all")
  /\ last.route = "query"
  /\ DOMAIN last.filter = {"where"}
  => /\ Len(last.compiled.query.filters) = C7_PredicateCount(last.filter["where"][2])
     /\ last.cbCount = 1 =>
          Range(ResultIds(last.cbResult))
            = {i \in DOMAIN store : C7_Holds(store[i], last.filter["where"][2])}

\* The names a fields object maps to true.
C8_TrueFields(fields) ==
  {Str(fields[2][k][1]) : k \in {n \in 1..Len(fields[2]) : fields[2][n][2] = <<"bool", TRUE>>}}

\* C8: a filter with a fields object compiles to a query selecting exactly
\* the names mapped to true, and all() calls back with the records.
C8_FieldsProjection ==
  /\ Invoked("all")
  /\ last.route = "query"
  /\ Prop(last.filter, "fields")[1] = "obj"
  /\ Prop(last.filter, "order")[1] # "arr"
  /\ ~last.raised
  => /\ last.compiled.kind = "query"
     /\ Range(last.compiled.query.selectVal) = C8_TrueFields(last.filter["fields"])
     /\ last.cbCount = 1

\* The directives C9 expects of a list of order entries: one per entry
\* with a direction token, descending when the token is DESC in any case.
RECURSIVE C9_Directives(_)
C9_Directives(entries) ==
  IF entries = <<>> THEN <<>>
  ELSE LET pieces == Head(entries)[2]
       IN (IF Len(pieces) >= 2
           THEN << <<pieces[1],
                     IF pieces[2] \in {"DESC", "desc", "Desc"} THEN "-" ELSE "+">> >>
           ELSE <<>>)
            \o C9_Directives(Tail(entries))

C9_Entries(order) == IF order[1] = "arr" THEN order[2] ELSE <<order>>

\* The filter without its order.
C9_Rest(filter) == [f \in DOMAIN filter \ {"order"} |-> filter[f]]

\* C9: when a verb compiles a filter with an order (a string or a
\* non-empty list), the query gets one directive per entry with a direction
\* token, in order, descending for DESC in any case and ascending
\* otherwise; an entry without a token gives none, and the compilation
\* ends as that of the filter without the order does, with the same where
\* predicates, limit, offset and select.
C9_OrderDirectives ==
  /\ last.compiled.kind # "none"
  /\ "order" \in DOMAIN last.filter
  /\ C9_Entries(last.filter["order"]) # <<>>
  => /\ last.compiled.query.orders = C9_Directives(C9_Entries(last.filter["order"]))
     /\ last.compiled.kind = buildQuery(C9_Rest(last.filter)).kind
     /\ last.compiled.query =
          [buildQuery(C9_Rest(last.filter)).query
             EXCEPT !.orders = last.compiled.query.orders]

\* all() compiled a list of an entry without a direction and a 'Desc'
\* entry, beside a limit, and ran the query.
C9_Witness ==
  /\ Succeeded("all")
  /\ last.route = "query"
  /\ Prop(last.filter, "order")[1] = "arr"
  /\ last.compiled.query.orders = << <<"age", "-">> >>
  /\ last.compiled.query.limitVal = 1
  /\ Len(last.cbResult[2]) = 1

C10_OnlyOrderAge(filter) ==
  /\ DOMAIN filter = {"order"}
  /\ filter["order"][1] = "words"
  /\ filter["order"][2] = <<"age">>

\* C10 as stated: order: 'age' compiles to ascending order by age, and
\* all() returns the records in ascending age order.
C10_BareFieldAscending ==
  Succeeded("all") /\ C10_OnlyOrderAge(last.filter) =>
    /\ last.compiled.query.orders = << <<"age", "+">> >>
    /\ \A k \in 1..(Len(last.cbResult[2]) - 1) :
         last.cbResult[2][k]["age"][2] <= last.cbResult[2][k + 1]["age"][2]

\* C10 as amended: order: 'age' compiles to a query with no ordering
\* directive, and all() returns every record of the kind in key order.
C10_BareFieldSkipped ==
  Succeeded("all") /\ C10_OnlyOrderAge(last.filter) =>
    /\ last.compiled.kind = "query"
    /\ last.compiled.query.orders = <<>>
    /\ Range(ResultIds(last.cbResult)) = DOMAIN store
    /\ \A k \in 1..(Len(last.cbResult[2]) - 1) :
         ResultIds(last.cbResult)[k] < ResultIds(last.cbResult)[k + 1]

\* all({order: 'age'}) returned an older record before a younger one.
C10_Witness ==
  /\ Succeeded("all")
  /\ C10_OnlyOrderAge(last.filter)
  /\ Len(last.cbResult[2]) = 2
  /\ "age" \in DOMAIN last.cbResult[2][1]
  /\ "age" \in DOMAIN last.cbResult[2][2]
  /\ last.cbResult[2][1]["age"][2] > last.cbResult[2][2]["age"][2]

\* The filter without its limit and skip.
C11_Rest(filter) == [f \in DOMAIN filter \ {"limit", "skip"} |-> filter[f]]

\* Positions from + 1 .. from + n of a list, as far as it goes.
C11_Window(list, from, n) ==
  IF from + n < Len(list) THEN SubSeq(list, from + 1, from + n)
  ELSE SubSeq(list, from + 1, Len(list))

\* C11: when all() is given a filter without where.id that carries
\* limit = n and/or skip = k (n, k >= 0, n = 0 included), the records it
\* calls back with are at most n, and are those at positions k .. k+n-1 of
\* the ordered list of the records matching the rest of the filter (no
\* client call raising).
C11_LimitSkipWindow ==
  /\ Succeeded("all")
  /\ ~last.raised
  /\ last.route # "findById"
  /\ DOMAIN last.filter \cap {"limit", "skip"} # {}
  => LET rest == allOutcome(C11_Rest(last.filter), 0)[2]
         k == IF "skip" \in DOMAIN last.filter THEN last.filter["skip"][2] ELSE 0
         n == IF "limit" \in DOMAIN last.filter THEN last.filter["limit"][2]
              ELSE Len(rest)
     IN /\ Len(last.cbResult[2]) <= n
        /\ last.cbResult[2] = C11_Window(rest, k, n)

\* filter.id or filter.where.id is present.
C12_HasId(filter) ==
  \/ "id" \in DOMAIN filter
  \/ ("where" \in DOMAIN filter /\ HasEntry(filter["where"], "id"))

\* The identifier of the key built from that id.
C12_KeyId(filter) ==
  parseInt(IF "id" \in DOMAIN filter THEN filter["id"]
           ELSE EntryValue(filter["where"], "id"))

\* C12: update with filter.id or filter.where.id makes exactly one client
\* call, an update, and no read or query; it changes no record but the one
\* under the key built from the id; when the call does not raise, that
\* record is data itself (the full payload) and the callback gets
\* {count: 1}; when it raises, nothing is written.
C12_SingleKeyUpdate ==
  Invoked("update") /\ C12_HasId(last.filter) =>
    LET id == C12_KeyId(last.filter)
    IN /\ last.route = "updateEntity"
       /\ last.calls = <<"update">>
       /\ DOMAIN store = DOMAIN last.pre
       /\ \A i \in DOMAIN store \ {id} : store[i] = last.pre[i]
       /\ last.cbCount = 1 =>
            /\ id \in DOMAIN last.pre
            /\ store[id] = last.data
            /\ last.cbResult = CountResult(1)
       /\ last.cbCount = 0 =>
            /\ store = last.pre
            /\ last.raised

\* A single-key update of one of two records replaced it by data: the
\* record lost a property it had, and the other record is as it was.
C12_Witness ==
  /\ Succeeded("update")
  /\ C12_HasId(last.filter)
  /\ Cardinality(DOMAIN store) = 2
  /\ store[C12_KeyId(last.filter)] = last.data
  /\ DOMAIN last.pre[C12_KeyId(last.filter)] # DOMAIN last.data
  /\ last.cbResult = CountResult(1)

\* The key ids of the records of the store the invocation started from
\* that match its compiled filter.
C13_Matching == Range(RunIds(last.pre, last.compiled.query))

\* C13: update with no id in filter or filter.where, its filter compiled
\* and no client call raising, runs the query and then makes one update
\* call; every record matching the compiled filter gets data's properties
\* and keeps its other ones, every other record is unchanged, and the
\* callback gets {count: m}, m the number of matching records.
C13_BulkUpdate ==
  /\ Invoked("update")
  /\ ~C12_HasId(last.filter)
  /\ last.compiled.kind = "query"
  /\ ~last.raised
  => /\ last.calls = <<"run", "update">>
     /\ last.cbCount = 1
     /\ last.cbResult = CountResult(Cardinality(C13_Matching))
     /\ DOMAIN store = DOMAIN last.pre
     /\ \A i \in DOMAIN store \ C13_Matching : store[i] = last.pre[i]
     /\ \A i \in C13_Matching :
          /\ \A p \in DOMAIN last.data : store[i][p] = last.data[p]
          /\ \A p \in DOMAIN last.pre[i] \ (DOMAIN last.data \cup {"id"}) :
               p \in DOMAIN store[i] /\ store[i][p] = last.pre[i][p]

\* A bulk update by where changed one of two records and not the other.
C13_Witness ==
  /\ Succeeded("update")
  /\ last.route = "query"
  /\ "where" \in DOMAIN last.filter
  /\ Cardinality(DOMAIN store) = 2
  /\ last.cbResult = CountResult(1)
  /\ \E i \in DOMAIN store : store[i] # last.pre[i]
  /\ \E i \in DOMAIN store : store[i] = last.pre[i]

\* where.id is present and is the decimal text of an identifier.
C14_ById(where) ==
  /\ HasEntry(where, "id")
  /\ EntryValue(where, "id")[1] = "chars"
  /\ IsDecimalText(EntryValue(where, "id")[2])

\* C14: destroyAll with where.id deletes the record with that id and no
\* other: an existing record is absent afterwards and the callback gets
\* {count: 1}; when no record has the id the store is unchanged and the
\* callback gets {count: 0}.
C14_DestroyById ==
  Succeeded("destroyAll") /\ C14_ById(last.filter) =>
    LET id == parseInt(EntryValue(last.filter, "id"))
    IN /\ store = Remove(last.pre, {id})
       /\ last.cbResult = CountResult(IF id \in DOMAIN last.pre THEN 1 ELSE 0)

\* C15: destroyAll with no where.id (where null, empty or with other
\* conditions only), no client call raising, fetches the collection and
\* then makes one delete call; the collection is empty afterwards and the
\* callback gets {count: n}, n the number of records the collection held
\* (0 on an empty collection).
C15_DestroyEverything ==
  /\ Invoked("destroyAll")
  /\ ~HasEntry(last.filter, "id")
  /\ ~last.raised
  => /\ last.calls = <<"run", "delete">>
     /\ last.cbCount = 1
     /\ last.cbErr = Null
     /\ store = <<>>
     /\ last.cbResult = CountResult(Cardinality(DOMAIN last.pre))

\* destroyAll with a condition on type emptied a collection of two records
\* of which one only had that type.
C15_Witness ==
  /\ Succeeded("destroyAll")
  /\ last.filter = Obj(<< <<"type", Str("Animal")>> >>)
  /\ Cardinality(DOMAIN last.pre) = 2
  /\ \E i \in DOMAIN last.pre : "type" \notin DOMAIN last.pre[i]
  /\ store = <<>>
  /\ last.cbResult = CountResult(2)

\* C16: count with no where.id, no client call raising, calls back with
\* the number of records in the collection, whatever conditions where
\* carries, and that number is the number of successful creates less the
\* number of records deleted.
C16_CountEverything ==
  /\ Invoked("count")
  /\ ~HasEntry(last.filter, "id")
  /\ ~last.raised
  => /\ last.cbCount = 1
     /\ last.cbResult = Num(Cardinality(DOMAIN store))
     /\ last.cbResult = Num(created - deleted)

\* After two creates and the deletion of one record, count with a
\* condition on type counted the remaining record, which has no type.
C16_Witness ==
  /\ Succeeded("count")
  /\ last.filter = Obj(<< <<"type", Str("Animal")>> >>)
  /\ created = 2
  /\ deleted = 1
  /\ \A i \in DOMAIN store : "type" \notin DOMAIN store[i]
  /\ last.cbResult = Num(1)

\* C17: every stored record has a createdAt property, equal to the
\* timestamp create stamped on it: no update removes or overwrites it.
C17_CreatedAtKept ==
  \A i \in DOMAIN store :
    /\ "createdAt" \in DOMAIN store[i]
    /\ store[i]["createdAt"] = stamps[i]

\* Record r was read from the record stored under key id i.
C18_ReadFrom(r, i) ==
  /\ i \in DOMAIN store
  /\ DOMAIN r \ {"id"} \subseteq DOMAIN store[i]
  /\ \A p \in DOMAIN r \ {"id"} : r[p] = store[i][p]

\* C18: every record all() calls back with, on any of its three branches,
\* has an id, the decimal text of the identifier of the key of the stored
\* record it was read from, whatever id that stored record holds; no two
\* returned records have the same id.
C18_IdOnEveryRead ==
  Succeeded("all") /\ last.cbResult # Undefined =>
    LET result == last.cbResult[2]
    IN /\ \A k \in 1..Len(result) :
            /\ "id" \in DOMAIN result[k]
            /\ \E i \in DOMAIN store :
                 /\ result[k]["id"] = Chars(NumberToString(i))
                 /\ C18_ReadFrom(result[k], i)
       /\ \A k, n \in 1..Len(result) : result[k]["id"] = result[n]["id"] => k = n

\* all() ran a query and returned, under id 1, a record that is stored
\* with an id property of 2.
C18_Witness ==
  /\ Succeeded("all")
  /\ last.route = "query"
  /\ 1 \in DOMAIN store
  /\ "id" \in DOMAIN store[1]
  /\ store[1]["id"] = Chars(<<"2">>)
  /\ \E k \in 1..Len(last.cbResult[2]) :
       /\ last.cbResult[2][k]["id"] = Chars(<<"1">>)
       /\ C18_ReadFrom(last.cbResult[2][k], 1)

C19_Known == {"lt", "lte", "gt", "gte", "ne", "in"}

\* A where entry without the unrecognized keys of its operator object.
C19_StripEntry(entry) ==
  IF entry[2][1] = "ops"
  THEN <<entry[1], Ops(SelectSeq(entry[2][2], LAMBDA kv : kv[1] \in C19_Known))>>
  ELSE entry

\* A filter without the unrecognized operator keys of its where.
C19_Strip(filter) ==
  [f \in DOMAIN filter |->
     IF f = "where" /\ filter[f][1] = "obj"
     THEN Obj([k \in 1..Len(filter[f][2]) |-> C19_StripEntry(filter[f][2][k])])
     ELSE filter[f]]

\* C19: when a verb compiles a filter whose where has an operator object
\* with a key other than lt, lte, gt, gte, ne, in, the compilation is that
\* of the filter without that key: no predicate for it, and no error.
C19_UnknownOperatorDropped ==
  /\ last.compiled.kind # "none"
  /\ C19_Strip(last.filter) # last.filter
  => /\ last.compiled = buildQuery(C19_Strip(last.filter))
     /\ ~last.raised => last.caught = "none"

C20_EmptyOrder(filter) ==
  "order" \in DOMAIN filter /\ filter["order"] = Arr(<<>>)

\* C20: when all() on its query branch or bulk update() compiles a filter
\* whose order is an empty array, the compiler returns no query, whatever
\* else the filter carries, and the verb completes without a failure and
\* invokes its callback.
C20_EmptyOrderIsNoError ==
  /\ last.compiled.kind # "none"
  /\ C20_EmptyOrder(last.filter)
  => /\ last.compiled.kind = "undefined"
     /\ last.caught = "none"
     /\ last.cbCount = 1

\* The record the pending update built for key id i from what it read.
C21_Built(i) ==
  ObjectAssign(ObjectAssign(pending.pre[i], [id |-> Chars(NumberToString(i))]),
               pending.data)

\* The bulk update has just made its write call, and the client did not fail.
C21_WriteDone ==
  /\ pending.phase = "written"
  /\ ~pending.failed
  /\ Invoked("update")
  /\ last.route = "query"

C21_Read == Range(pending.ids)

\* C21 as stated: whatever other invocations wrote to the matched records
\* (single-key updates or deletes) between the bulk update's query and its
\* write, the write stores for every record read the record built from
\* the read, and the callback gets the number of records read.
C21_StaleWriteAlways ==
  C21_WriteDone =>
    /\ last.cbCount = 1
    /\ last.cbResult = CountResult(Len(pending.ids))
    /\ \A i \in C21_Read : i \in DOMAIN store /\ store[i] = C21_Built(i)

\* C21 as amended: when every record read is still stored at the write,
\* whatever single-key updates changed them meanwhile, the write stores
\* for each the record built from the read, leaves the other records as
\* they were, and the callback gets the number of records read; when a
\* record read was deleted meanwhile, the write call raises, the callback
\* is not called, the deleted record stays deleted, and each other record
\* read is as it was or as built from the read.
C21_StaleWrite ==
  C21_WriteDone =>
    /\ DOMAIN store = DOMAIN last.pre
    /\ \A i \in DOMAIN store \ C21_Read : store[i] = last.pre[i]
    /\ IF C21_Read \subseteq DOMAIN last.pre
       THEN /\ last.cbCount = 1
            /\ last.cbResult = CountResult(Len(pending.ids))
            /\ \A i \in C21_Read : store[i] = C21_Built(i)
       ELSE /\ last.cbCount = 0
            /\ last.caught = "client"
            /\ \A i \in C21_Read \cap DOMAIN store :
                 store[i] = last.pre[i] \/ store[i] = C21_Built(i)

\* A lost update: between the query and the write a single-key update
\* replaced a record read, which then matched the filter no more; the write
\* stored the record built from the read, and the count is the one record
\* read.
C21_Witness ==
  /\ C21_WriteDone
  /\ last.cbCount = 1
  /\ last.cbResult = CountResult(1)
  /\ Len(RunIds(last.pre, last.compiled.query)) = 0
  /\ \E i \in C21_Read :
       /\ last.pre[i] # pending.pre[i]
       /\ store[i] = C21_Built(i)
       /\ \E p \in DOMAIN last.pre[i] \cap DOMAIN store[i] :
            store[i][p] # last.pre[i][p]

\* The where of the last invocation: all and update take it in a filter.
C22_Where ==
  IF last.verb \in {"all", "update"}
  THEN (IF "where" \in DOMAIN last.filter THEN last.filter["where"] ELSE Null)
  ELSE last.filter

\* The last invocation was given a where.id that is a string but not the
\* decimal text of an integer.
C22_NonNumericId ==
  /\ last.verb \in {"all", "count", "update", "destroyAll"}
  /\ HasEntry(C22_Where, "id")
  /\ EntryValue(C22_Where, "id")[1] = "chars"
  /\ ~IsDecimalText(EntryValue(C22_Where, "id")[2])

\* C22: all, count, update and destroyAll given a where.id that is not the
\* decimal text of an integer ('a', '1a') build a NaN key and so touch no
\* record: the store is as it was, all() returns no record and count
\* reports 0.
C22_NonNumericTouchesNothing ==
  C22_NonNumericId =>
    /\ createEntityKeyWithId(EntryValue(C22_Where, "id")) = <<"key", NaN>>
    /\ store = last.pre
    /\ Succeeded("all") /\ last.cbResult # Undefined => last.cbResult = List(<<>>)
    /\ Succeeded("count") => last.cbResult = Num(0)

\* The filter that names the record under key id i by where.id.
C23_ById(i) == [where |-> Obj(<< <<"id", Chars(NumberToString(i))>> >>)]

\* The non-id where w matches the record under key id i and no other.
C23_MatchesOnly(w, i) == RunIds(store, buildQuery([where |-> w]).query) = <<i>>

\* C23: for every stored record r and every property map D, update by
\* {where: {id: r.id}} and update by a non-id where that matches only r
\* leave the store in the same state: r's properties with D's written over
\* them, every other record as it was.
C23_UpdatesAgree ==
  \A i \in DOMAIN store, D \in UpdateData, w \in PlainWheres :
    C23_MatchesOnly(w, i) =>
      /\ updateStore(C23_ById(i), D, 0) = updateStore([where |-> w], D, 0)
      /\ updateStore(C23_ById(i), D, 0) = Put(store, i, ObjectAssign(store[i], D))

====
